---- MODULE Spec2Model ----
(***************************************************************************)
(* Model of the session manager (tradebot/session_manager.py), the HTTP    *)
(* client (tradebot/api_client.py) and the historical data manager         *)
(* (tradebot/historical_data.py).                                          *)
(*                                                                         *)
(* Spec      : one SessionManager object and its durable session file.     *)
(* SpecSync  : HistoricalDataManager.download on one dataset key, with a   *)
(*             session that is fixed for the run.                          *)
(***************************************************************************)
EXTENDS Integers, Sequences, FiniteSets, TLC

VARIABLES
    api_token, api_secret, totp_secret,   \* SessionManager configuration
    api_session_key, susertoken, uid,     \* SessionManager in-memory fields
    last_login_ts,
    session_file,                         \* content of persist_path
    clock,                                \* time.time() of the last login
    ret,                                  \* outcome of the last session call
    order_manager,                        \* a NormalOrderManager holds the session
    files,                                \* timeframe -> local CSV file
    active_tf,                            \* the dataset key the run works on
    call,                                 \* outcome of the last download call
    history,                              \* Downloader's saved history file
    syncers,                              \* concurrent download calls in flight
    threads,                              \* concurrent session calls in flight
    broker                                \* what the broker's API client reports

vars == << api_token, api_secret, totp_secret, api_session_key, susertoken,
           uid, last_login_ts, session_file, clock, ret, order_manager, files,
           active_tf, call, history, syncers, threads, broker >>

sessionVars == << api_token, api_secret, totp_secret, api_session_key,
                  susertoken, uid, last_login_ts, session_file, clock, ret,
                  order_manager >>

syncVars == << files, active_tf, call >>

auxVars == << history, syncers, threads, broker >>

----------------------------------------------------------------------------
(* Bounds *)

MaxClock == 2

----------------------------------------------------------------------------
(* Python values *)

\* Python None (an absent key of a response dict reads as None through .get)
None == "<None>"

\* last_login_ts before any login
NoTs == 0

\* `not value` for the strings and None the session manager handles
Falsy(v) == v \in {None, ""}

\* Python `a or b`
PyOr(a, b) == IF Falsy(a) THEN b ELSE a

\* str(x).lower() on the stat values the token endpoint is modelled to send
StrLower(s) ==
    CASE s = "OK" -> "ok"
      [] s = "Ok" -> "ok"
      [] s = "ERROR" -> "error"
      [] s = None -> "none"
      [] OTHER -> s

----------------------------------------------------------------------------
(* Durable session record *)

NoFile == [kind |-> "absent"]
Corrupt == [kind |-> "corrupt"]

SessionKeys == {"K1", "K2"}
UserTokens == {"U1"}

\* the blob _save_session writes
Blob(k, t, u, ts) ==
    [api_session_key |-> k, susertoken |-> t, uid |-> u, last_login_ts |-> ts]

EmptyFields == Blob(None, None, None, NoTs)

\* _save_session: the four fields as one JSON object, replacing the file
save_session(k, t, u, ts) == [kind |-> "json", blob |-> Blob(k, t, u, ts)]

\* a file whose content is JSON but no object (a list, a string, a number)
NotDict == [kind |-> "notdict"]

\* load_session that reads nothing
load_session_Ignore(file, cur) == cur

\* _load_session applied to fields `cur`: a missing file leaves them alone,
\* an unreadable one is ignored (json.load raises, or blob.get raises on the
\* first field when the content is no object), a JSON object overwrites all
\* four with blob.get, None for a key it lacks
load_session(file, cur) ==
    IF file.kind = "absent" THEN cur
    ELSE IF file.kind \in {"corrupt", "notdict"} THEN cur
    ELSE Blob(file.blob.api_session_key, file.blob.susertoken, file.blob.uid,
              file.blob.last_login_ts)

\* SessionManager.__init__: fields None, then _load_session
Construct(file) == load_session(file, EmptyFields)

\* is_logged_in
is_logged_in_of(k, t) == ~Falsy(k) /\ ~Falsy(t)

is_logged_in == is_logged_in_of(api_session_key, susertoken)

----------------------------------------------------------------------------
(* Remote login endpoints: what a request can come back with *)

\* kind: "neterr"   requests raised (timeout, connection failure)
\*       "http_err" 4xx/5xx status
\*       "notjson"  2xx, body is not JSON
\*       "notdict"  2xx, body is JSON but not an object
\*       "json"     2xx, body is a JSON object with the fields below
Step1Responses ==
    [kind : {"neterr", "http_err", "notjson", "notdict"},
     otp_token : {None}]
    \cup [kind : {"json"}, otp_token : {None, "", "T1"}]

Step2Responses ==
    [kind : {"neterr", "http_err", "notjson", "notdict"}, stat : {None},
     api_session_key : {None}, susertoken : {None}, uid : {None},
     actid : {None}]
    \cup [kind : {"json"}, stat : {"OK", "ok", "ERROR"},
          api_session_key : SessionKeys \cup {None, ""},
          susertoken : UserTokens \cup {None},
          uid : {None, "1"}, actid : {"A1"}]

\* an HTTP request as the remote sees it: the endpoint and the Authorization
\* header (None when the request carries none)
Sent(endpoint, auth) == [endpoint |-> endpoint, auth |-> auth]

\* the outcome of a call: the exception raised ("none" when it returned), the
\* value returned and the HTTP requests it sent, in order
RetSent(op, exc, val, sent) ==
    [op |-> op, exc |-> exc, val |-> val, sent |-> sent]

Ret(op, exc, val) == RetSent(op, exc, val, << >>)

\* _raise_for_status / r.json() / data.get: the exception a response raises
\* before any field of it is used, "none" when it is a JSON object
TransportExc(resp) ==
    CASE resp.kind = "neterr" -> "RequestException"
      [] resp.kind = "http_err" -> "SessionError"
      [] resp.kind = "notjson" -> "JSONDecodeError"
      [] resp.kind = "notdict" -> "AttributeError"
      [] OTHER -> "none"

\* the GET of login_step1 and the POST of login_step2_with_otp
Step1Sent == << Sent("login", None) >>
Step2Sent == << Sent("token", None) >>

\* login_step1: [exc, otp_token, sent]
Step1Result(tok, sec, resp) ==
    IF Falsy(tok) \/ Falsy(sec)
    THEN [exc |-> "SessionError", otp_token |-> None, sent |-> << >>]
    ELSE IF TransportExc(resp) # "none"
         THEN [exc |-> TransportExc(resp), otp_token |-> None,
               sent |-> Step1Sent]
    ELSE IF Falsy(resp.otp_token)
         THEN [exc |-> "SessionError", otp_token |-> None, sent |-> Step1Sent]
    ELSE [exc |-> "none", otp_token |-> resp.otp_token, sent |-> Step1Sent]

\* the fields login_step2_with_otp assigns from an OK response (lines 102-105)
Step2Assign(resp, now) ==
    Blob(resp.api_session_key, resp.susertoken, PyOr(resp.uid, resp.actid), now)

\* Step2Result with _save_session called before the credentials are checked
Step2Result_SaveFirst(cur, file, resp, now) ==
    IF TransportExc(resp) # "none"
    THEN [exc |-> TransportExc(resp), mem |-> cur, file |-> file]
    ELSE IF StrLower(resp.stat) # "ok"
    THEN [exc |-> "SessionError", mem |-> cur, file |-> file]
    ELSE LET m == Step2Assign(resp, now)
             f == save_session(m.api_session_key, m.susertoken, m.uid,
                               m.last_login_ts) IN
         IF Falsy(m.api_session_key) \/ Falsy(m.susertoken)
         THEN [exc |-> "SessionError", mem |-> m, file |-> f]
         ELSE [exc |-> "none", mem |-> m, file |-> f]

\* login_step2_with_otp: [exc, mem, file] from fields `cur` and file `file`
Step2Result(cur, file, resp, now) ==
    IF TransportExc(resp) # "none"
    THEN [exc |-> TransportExc(resp), mem |-> cur, file |-> file]
    ELSE IF StrLower(resp.stat) # "ok"
    THEN [exc |-> "SessionError", mem |-> cur, file |-> file]
    ELSE LET m == Step2Assign(resp, now) IN
         IF Falsy(m.api_session_key) \/ Falsy(m.susertoken)
         THEN [exc |-> "SessionError", mem |-> m, file |-> file]
         ELSE [exc |-> "none", mem |-> m,
               file |-> save_session(m.api_session_key, m.susertoken, m.uid,
                                     m.last_login_ts)]

Mem == Blob(api_session_key, susertoken, uid, last_login_ts)

SetMem(m) ==
    /\ api_session_key' = m.api_session_key
    /\ susertoken' = m.susertoken
    /\ uid' = m.uid
    /\ last_login_ts' = m.last_login_ts

----------------------------------------------------------------------------
(* SessionManager operations *)

login_step1 ==
    \E resp \in Step1Responses :
        LET r == Step1Result(api_token, api_secret, resp) IN
        /\ ret' = RetSent("login_step1", r.exc, r.otp_token, r.sent)
        /\ UNCHANGED << order_manager, api_token, api_secret, totp_secret, api_session_key,
                        susertoken, uid, last_login_ts, session_file, clock >>
        /\ UNCHANGED << syncVars, auxVars >>

\* login_step2_with_otp against one response of the token endpoint
Step2Call(resp, now) ==
    LET r == Step2Result(Mem, session_file, resp, now) IN
    /\ SetMem(r.mem)
    /\ session_file' = r.file
    /\ clock' = now
    /\ ret' = RetSent("login_step2_with_otp", r.exc, None, Step2Sent)
    /\ UNCHANGED << order_manager, api_token, api_secret, totp_secret >>
    /\ UNCHANGED << syncVars, auxVars >>

login_step2_with_otp ==
    \E resp \in Step2Responses, now \in clock..MaxClock : Step2Call(resp, now)

login_step2_with_totp ==
    \E resp \in Step2Responses, now \in clock..MaxClock :
        LET r == IF Falsy(totp_secret)
                 THEN [exc |-> "SessionError", mem |-> Mem, file |-> session_file]
                 ELSE Step2Result(Mem, session_file, resp, now) IN
        /\ SetMem(r.mem)
        /\ session_file' = r.file
        /\ clock' = IF Falsy(totp_secret) THEN clock ELSE now
        /\ ret' = RetSent("login_step2_with_totp", r.exc, None,
                          IF Falsy(totp_secret) THEN << >> ELSE Step2Sent)
        /\ UNCHANGED << order_manager, api_token, api_secret, totp_secret >>
        /\ UNCHANGED << syncVars, auxVars >>

\* login: step 1, then step 2 with a generated code when prefer_totp and a
\* TOTP secret is configured, else the otp_token is handed back
\* UsesTotp with prefer_totp ignored
UsesTotp_Always(prefer_totp, secret) == ~Falsy(secret)

\* login line 122: `if prefer_totp and self.totp_secret`
UsesTotp(prefer_totp, secret) == prefer_totp /\ ~Falsy(secret)

Login(prefer_totp, resp1) ==
    LET s1 == Step1Result(api_token, api_secret, resp1) IN
    IF s1.exc = "none" /\ UsesTotp(prefer_totp, totp_secret)
    THEN \E resp2 \in Step2Responses, now \in clock..MaxClock :
            LET r == Step2Result(Mem, session_file, resp2, now) IN
            /\ SetMem(r.mem)
            /\ session_file' = r.file
            /\ clock' = now
            /\ ret' = RetSent("login", r.exc, None, s1.sent \o Step2Sent)
            /\ UNCHANGED << order_manager, api_token, api_secret, totp_secret >>
            /\ UNCHANGED << syncVars, auxVars >>
    ELSE /\ ret' = RetSent("login", s1.exc, s1.otp_token, s1.sent)
         /\ UNCHANGED << order_manager, api_token, api_secret, totp_secret,
                         api_session_key, susertoken, uid, last_login_ts,
                         session_file, clock >>
         /\ UNCHANGED << syncVars, auxVars >>

login ==
    \E prefer_totp \in BOOLEAN, resp1 \in Step1Responses :
        Login(prefer_totp, resp1)

\* get_auth_headers: the Authorization value, or SessionError
AuthHeaders(k) ==
    IF Falsy(k) THEN [exc |-> "SessionError", val |-> None]
    ELSE [exc |-> "none", val |-> k]

\* get_ws_token
WsToken(t) ==
    IF Falsy(t) THEN [exc |-> "SessionError", val |-> None]
    ELSE [exc |-> "none", val |-> t]

get_auth_headers ==
    /\ ret' = Ret("get_auth_headers", AuthHeaders(api_session_key).exc,
                  AuthHeaders(api_session_key).val)
    /\ UNCHANGED << order_manager, api_token, api_secret, totp_secret, api_session_key,
                    susertoken, uid, last_login_ts, session_file, clock >>
    /\ UNCHANGED << syncVars, auxVars >>

get_ws_token ==
    /\ ret' = Ret("get_ws_token", WsToken(susertoken).exc,
                  WsToken(susertoken).val)
    /\ UNCHANGED << order_manager, api_token, api_secret, totp_secret, api_session_key,
                    susertoken, uid, last_login_ts, session_file, clock >>
    /\ UNCHANGED << syncVars, auxVars >>

\* logout that leaves the durable record in place
logout_KeepFile ==
    /\ SetMem(EmptyFields)
    /\ session_file' = session_file
    /\ ret' = Ret("logout", "none", None)
    /\ UNCHANGED << order_manager, api_token, api_secret, totp_secret, clock >>
    /\ UNCHANGED << syncVars, auxVars >>

logout ==
    /\ SetMem(EmptyFields)
    /\ session_file' = NoFile
    /\ ret' = Ret("logout", "none", None)
    /\ UNCHANGED << order_manager, api_token, api_secret, totp_secret, clock >>
    /\ UNCHANGED << syncVars, auxVars >>

\* what the remote can answer to a gateway or order request
GatewayNet == {"neterr", "http_err", "notjson", "json"}

\* RequestWithHeaders that sends the request without a header when the session
\* manager has no session key
RequestWithHeaders_Unchecked(k, endpoint, net, http_exc) ==
    [exc |-> CASE net = "neterr" -> "RequestException"
               [] net = "http_err" -> http_exc
               [] net = "notjson" -> "JSONDecodeError"
               [] OTHER -> "none",
     val |-> IF net = "json" THEN "json" ELSE None,
     sent |-> << Sent(endpoint, IF Falsy(k) THEN None ELSE k) >>]

\* APIClient.get / APIClient.post: _headers() asks the session manager for the
\* Authorization header (SessionError, nothing sent, without a session key),
\* then one request is sent; 4xx/5xx raises `http_exc`
RequestWithHeaders(k, endpoint, net, http_exc) ==
    IF AuthHeaders(k).exc # "none"
    THEN [exc |-> AuthHeaders(k).exc, val |-> None, sent |-> << >>]
    ELSE [exc |-> CASE net = "neterr" -> "RequestException"
                    [] net = "http_err" -> http_exc
                    [] net = "notjson" -> "JSONDecodeError"
                    [] OTHER -> "none",
          val |-> IF net = "json" THEN "json" ELSE None,
          sent |-> << Sent(endpoint, AuthHeaders(k).val) >>]

SessionCall(op, r) ==
    /\ ret' = RetSent(op, r.exc, r.val, r.sent)
    /\ UNCHANGED << order_manager, api_token, api_secret, totp_secret,
                    api_session_key, susertoken, uid, last_login_ts,
                    session_file, clock >>
    /\ UNCHANGED << syncVars, auxVars >>

api_get ==
    \E net \in GatewayNet :
        SessionCall("APIClient.get",
                    RequestWithHeaders(api_session_key, "get", net,
                                       "APIClientError"))

api_post ==
    \E net \in GatewayNet :
        SessionCall("APIClient.post",
                    RequestWithHeaders(api_session_key, "post", net,
                                       "APIClientError"))

\* NormalOrderManager(session): refuses a session that is not logged in
NormalOrderManager_init ==
    /\ order_manager' = (order_manager \/ is_logged_in)
    /\ ret' = Ret("NormalOrderManager", IF is_logged_in THEN "none"
                                        ELSE "SessionError", None)
    /\ UNCHANGED << api_token, api_secret, totp_secret, api_session_key,
                    susertoken, uid, last_login_ts, session_file, clock >>
    /\ UNCHANGED << syncVars, auxVars >>

\* NormalOrderManager.modify_order / cancel_order on a manager built earlier
modify_order ==
    /\ order_manager
    /\ \E net \in GatewayNet :
          SessionCall("modify_order",
                      RequestWithHeaders(api_session_key, "modify", net,
                                         "HTTPError"))

cancel_order ==
    /\ order_manager
    /\ \E net \in GatewayNet :
          SessionCall("cancel_order",
                      RequestWithHeaders(api_session_key, "cancel", net,
                                         "HTTPError"))

\* a new SessionManager on the same persist_path (every run of the page
\* script constructs one)
Restart ==
    /\ SetMem(Construct(session_file))
    /\ ret' = Ret("__init__", "none", None)
    /\ order_manager' = FALSE
    /\ UNCHANGED << api_token, api_secret, totp_secret, session_file, clock >>
    /\ UNCHANGED << syncVars, auxVars >>

----------------------------------------------------------------------------
(* Session specification *)

\* files a previous run of the program can have left behind
InitSessionFiles ==
    {NoFile, Corrupt}
    \cup {save_session(k, t, "1", 1) : k \in {"K1"}, t \in {"U1"}}

NoCall == [op |-> "none"]

\* nothing saved by a Downloader, no concurrent call in flight
NoBroker ==
    [orders |-> << >>, alerts |-> << >>, positions |-> << >>,
     holdings |-> << >>]

InitAux ==
    /\ history = << >>
    /\ syncers = << >>
    /\ threads = << >>
    /\ broker = NoBroker

\* the credentials a SessionManager is constructed with ("" when not given)
Configs ==
    { [api_token |-> "tok", api_secret |-> "sec", totp_secret |-> "totp"],
      [api_token |-> "tok", api_secret |-> "sec", totp_secret |-> ""],
      [api_token |-> "", api_secret |-> "sec", totp_secret |-> "totp"],
      [api_token |-> "tok", api_secret |-> "", totp_secret |-> "totp"] }

InitSession(file) ==
    /\ session_file = file
    /\ api_session_key = Construct(file).api_session_key
    /\ susertoken = Construct(file).susertoken
    /\ uid = Construct(file).uid
    /\ last_login_ts = Construct(file).last_login_ts
    /\ clock = 1
    /\ ret = Ret("__init__", "none", None)
    /\ order_manager = FALSE

Init ==
    /\ \E c \in Configs :
          /\ api_token = c.api_token
          /\ api_secret = c.api_secret
          /\ totp_secret = c.totp_secret
    /\ \E file \in InitSessionFiles : InitSession(file)
    /\ files = [tf \in {"day", "minute", "tick"} |-> [exists |-> FALSE, rows |-> << >>]]
    /\ active_tf = "day"
    /\ call = NoCall
    /\ InitAux

Next ==
    \/ login_step1
    \/ login_step2_with_otp
    \/ login_step2_with_totp
    \/ login
    \/ get_auth_headers
    \/ get_ws_token
    \/ logout
    \/ Restart

Spec == Init /\ [][Next]_vars

----------------------------------------------------------------------------
(* Gateway specification: the session manager with an APIClient and a      *)
(* NormalOrderManager that hold it; logins are by login_step2_with_otp     *)

NextGateway ==
    \/ login_step2_with_otp
    \/ logout
    \/ api_get
    \/ api_post
    \/ NormalOrderManager_init
    \/ modify_order
    \/ cancel_order

SpecGateway == Init /\ [][NextGateway]_vars

----------------------------------------------------------------------------
(* Construction specification: SessionManager.__init__ on a persist_path   *)
(* holding any content                                                     *)

\* contents of persist_path: no file, text that is no JSON, JSON that is no
\* object, or a JSON object (a key it lacks reads as None, NoTs for
\* last_login_ts)
DurableRecords ==
    {NoFile, Corrupt, NotDict}
    \cup {[kind |-> "json", blob |-> Blob(k, t, u, ts)] :
             k \in SessionKeys \cup {None}, t \in UserTokens \cup {None},
             u \in {"1", None}, ts \in {NoTs, 1}}

\* __init__ up to line 49: the four fields are None, nothing is loaded yet
InitLoad ==
    /\ \E c \in Configs :
          /\ api_token = c.api_token
          /\ api_secret = c.api_secret
          /\ totp_secret = c.totp_secret
    /\ session_file \in DurableRecords
    /\ api_session_key = None
    /\ susertoken = None
    /\ uid = None
    /\ last_login_ts = NoTs
    /\ clock = 1
    /\ ret = Ret("none", "none", None)
    /\ order_manager = FALSE
    /\ files = [tf \in {"day", "minute", "tick"} |-> [exists |-> FALSE, rows |-> << >>]]
    /\ active_tf = "day"
    /\ call = NoCall
    /\ InitAux

NextLoad == Restart

SpecLoad == InitLoad /\ [][NextLoad]_vars

----------------------------------------------------------------------------
(* Login page (src/app.py): every run of the script constructs a           *)
(* SessionManager on the persist_path, then runs the handler of the button *)
(* that was pressed                                                        *)

\* what the handler of "Login with TOTP (auto)" shows: st.success when
\* sm.login returned, st.error on SessionError; any other exception leaves
\* the handler
PageOutcome(exc) ==
    CASE exc = "none" -> "success"
      [] exc = "SessionError" -> "error"
      [] OTHER -> "exception"

LoginButton(resp1) ==
    LET cur == Construct(session_file)
        s1 == Step1Result(api_token, api_secret, resp1) IN
    IF s1.exc = "none" /\ UsesTotp(TRUE, totp_secret)
    THEN \E resp2 \in Step2Responses, now \in clock..MaxClock :
            LET r == Step2Result(cur, session_file, resp2, now) IN
            /\ SetMem(r.mem)
            /\ session_file' = r.file
            /\ clock' = now
            /\ ret' = RetSent("login_button", r.exc, PageOutcome(r.exc),
                              s1.sent \o Step2Sent)
    ELSE /\ SetMem(cur)
         /\ ret' = RetSent("login_button", s1.exc, PageOutcome(s1.exc),
                           s1.sent)
         /\ UNCHANGED << session_file, clock >>

login_button ==
    /\ \E resp1 \in Step1Responses : LoginButton(resp1)
    /\ order_manager' = FALSE
    /\ UNCHANGED << api_token, api_secret, totp_secret >>
    /\ UNCHANGED << syncVars, auxVars >>

NextPage == login_button

SpecPage == Init /\ [][NextPage]_vars

----------------------------------------------------------------------------
(* Historical data: time, rows, files *)

MaxK == 1
MaxRows == 2
MaxClose == 2
TickGap == 59

SecondsPerMinute == 60
SecondsPerDay == 86400

Timeframes == {"day", "minute", "tick"}

\* timedelta(days=1) / timedelta(minutes=1) / timedelta(seconds=1), in seconds
Unit(tf) ==
    CASE tf = "day" -> SecondsPerDay
      [] tf = "minute" -> SecondsPerMinute
      [] OTHER -> 1

\* spacing of the sample timestamps of a timeframe
Gap(tf) == IF tf = "tick" THEN TickGap ELSE Unit(tf)

\* pandas NaT: what pd.to_datetime(..., errors="coerce") makes of a cell that
\* is no date; _last_timestamp_in_file answers None for it
NaT == -1

\* a cell that is no number
NaN == 0

Times(tf) == {k * Gap(tf) : k \in 0..MaxK}

Closes == 1..MaxClose

\* a parsed row: the timestamp column (datetime / utc) and the close column
Row(ts, close) == [ts |-> ts, close |-> close]

\* rows a response line can parse to: a dated row, or a line that is no data
\* (its date cell becomes NaT, its close cell NaN)
Rows(tf) == [ts : Times(tf), close : Closes] \cup {Row(NaT, NaN)}

\* bodies of a 200 answer of the history endpoint: 0..MaxRows CSV lines
Bodies(tf) == UNION {[1..n -> Rows(tf)] : n \in 0..MaxRows}

\* the one line str(resp) parses to when APIClient.get returned parsed JSON
JsonTextRows == << Row(NaT, NaN) >>

\* a local CSV file: absent, or header plus rows
NoCsv == [exists |-> FALSE, rows |-> << >>]
Csv(rows) == [exists |-> TRUE, rows |-> rows]

\* _fmt_dt_for_api: strftime("%d%m%Y%H%M") keeps the minute and drops seconds
fmt_dt_for_api(dt) == dt - (dt % SecondsPerMinute)

\* _last_timestamp_in_file: NaT stands for the None it returns
last_timestamp_in_file(file) ==
    IF ~file.exists THEN NaT
    ELSE IF Len(file.rows) = 0 THEN NaT
    ELSE file.rows[Len(file.rows)].ts

\* Resume with the early return taken only when the resume point is after
\* to_dt
Resume_After(file, tf, from_dt, to_dt) ==
    LET last_ts == last_timestamp_in_file(file) IN
    IF last_ts # NaT
    THEN [short |-> last_ts + Unit(tf) > to_dt, from_api |-> last_ts + Unit(tf)]
    ELSE [short |-> FALSE, from_api |-> from_dt]

\* Resume that restarts from the last stored timestamp itself
Resume_NoAdvance(file, tf, from_dt, to_dt) ==
    LET last_ts == last_timestamp_in_file(file) IN
    IF last_ts # NaT
    THEN [short |-> last_ts + Unit(tf) >= to_dt, from_api |-> last_ts]
    ELSE [short |-> FALSE, from_api |-> from_dt]

\* download lines 156-175: whether the call returns early, and the from-date
\* of the API call otherwise
Resume(file, tf, from_dt, to_dt) ==
    LET last_ts == last_timestamp_in_file(file) IN
    IF last_ts # NaT
    THEN [short |-> last_ts + Unit(tf) >= to_dt, from_api |-> last_ts + Unit(tf)]
    ELSE [short |-> FALSE, from_api |-> from_dt]

----------------------------------------------------------------------------
(* _call_history_api with an APIClient as api_client *)

\* one GET as the remote sees it: the two dates of the URL and the
\* Authorization header (None when the header is not sent)
Request(from_api, to_dt, auth) ==
    [from |-> fmt_dt_for_api(from_api), to |-> fmt_dt_for_api(to_dt),
     auth |-> auth]

\* first attempt, api_client.get(full_url): APIClient.get builds the headers
\* (SessionError without a session key, nothing is sent), sends the GET,
\* raises on 4xx/5xx and returns r.json()
\*   net1: "raises" (requests raised, 4xx/5xx, or a 2xx body that is not
\*         JSON, as CSV is: all caught by `except Exception`) | "json"
FirstAttempt(key, from_api, to_dt, net1) ==
    IF AuthHeaders(key).exc # "none"
    THEN [done |-> FALSE, requests |-> << >>]
    ELSE [done |-> net1 = "json",
          requests |-> << Request(from_api, to_dt, AuthHeaders(key).val) >>]

\* fallback, requests.get with the headers of api_client.session_manager
\* ({} when get_auth_headers raises)
\*   net2: [kind : "neterr" | "http_err" | "ok", body]
FallbackHeaders(key) ==
    IF AuthHeaders(key).exc # "none" THEN None ELSE AuthHeaders(key).val

CallHistoryApi(key, from_api, to_dt, net1, net2) ==
    LET first == FirstAttempt(key, from_api, to_dt, net1)
        second == Request(from_api, to_dt, FallbackHeaders(key)) IN
    IF first.done
    THEN [exc |-> "none", text |-> JsonTextRows, requests |-> first.requests]
    ELSE [exc |-> CASE net2.kind = "neterr" -> "RequestException"
                    [] net2.kind = "http_err" -> "HistoricalDataError"
                    [] OTHER -> "none",
          text |-> net2.body,
          requests |-> Append(first.requests, second)]

NetFirst == {"raises", "json"}

NetSecond(tf) ==
    [kind : {"neterr", "http_err"}, body : {<< >>}]
    \cup [kind : {"ok"}, body : Bodies(tf)]

----------------------------------------------------------------------------
(* Parsing and merging *)

\* _parse_day_minute_df / _parse_tick_df: read_csv raises EmptyDataError on
\* an empty body; cells that are no date become NaT
ParseDf(text) ==
    IF Len(text) = 0 THEN [exc |-> "EmptyDataError", rows |-> << >>]
    ELSE [exc |-> "none", rows |-> text]

\* order of sort_values on the timestamp column: ascending, NaT last
Before(a, b) == a # NaT /\ (b = NaT \/ a < b)

RECURSIVE SortedTs(_)
SortedTs(S) ==
    IF S = {} THEN << >>
    ELSE LET m == CHOOSE x \in S : \A y \in S \ {x} : Before(x, y)
         IN << m >> \o SortedTs(S \ {m})

RowsOf(seq) == {seq[i] : i \in 1..Len(seq)}

\* concat, sort_values (quicksort: rows of equal timestamp end in any order),
\* drop_duplicates(keep="last"), reset_index: one row per timestamp in
\* ascending order, the row kept being whichever the sort placed last
MergeResults(existing, new) ==
    LET all == RowsOf(existing \o new)
        ks == SortedTs({r.ts : r \in all})
    IN {m \in [1..Len(ks) -> all] : \A i \in 1..Len(ks) : m[i].ts = ks[i]}

\* ResultDfs with the fetched rows replacing the stored ones
ResultDfs_Replace(file, new_rows) == {new_rows}

\* download lines 186-213: the data frames the call can end with
ResultDfs(file, new_rows) ==
    IF file.exists THEN MergeResults(file.rows, new_rows) ELSE {new_rows}

----------------------------------------------------------------------------
(* HistoricalDataManager.download(segment, token, timeframe, from_dt, to_dt) *)
(* on the key of timeframe tf; save is left at its default True, as every  *)
(* caller does                                                             *)

\* the timestamps of a sequence of rows
TsOf(rows) == {r.ts : r \in RowsOf(rows)}

\* the record of a call: its arguments, how it ended ("ok", "short_circuit"
\* or the exception raised), the GETs it sent, the timestamps of the rows it
\* parsed out of the answer (new_df) and the frame it returned;
\* repeat says that the call before it had the same arguments and returned
Call(from_dt, to_dt, outcome, requests, fetched, returned) ==
    [op |-> "download", from_dt |-> from_dt, to_dt |-> to_dt,
     outcome |-> outcome, requests |-> requests, fetched |-> fetched,
     returned |-> returned,
     repeat |-> /\ call.op = "download"
                /\ call.outcome \in {"ok", "short_circuit"}
                /\ call.from_dt = from_dt
                /\ call.to_dt = to_dt]

\* Persist with the file written whatever the outcome
Persist_Always(file, outcome, result) == Csv(result)

\* the file after a call that ended with `outcome` and result_df `result`
Persist(file, outcome, result) ==
    IF outcome = "ok" THEN Csv(result) ELSE file

\* the rows the call parsed out of the answer (new_df), << >> when it got none
FetchedRows(key, from_api, to_dt, net1, net2) ==
    LET api == CallHistoryApi(key, from_api, to_dt, net1, net2) IN
    IF api.exc = "none" THEN ParseDf(api.text).rows ELSE << >>

Download(tf, from_dt, to_dt, net1, net2) ==
    LET file == files[tf]
        rs == Resume(file, tf, from_dt, to_dt) IN
    IF rs.short
    THEN /\ call' = Call(from_dt, to_dt, "short_circuit", << >>, {}, file.rows)
         /\ files' = files
    ELSE LET api == CallHistoryApi(api_session_key, rs.from_api, to_dt,
                                   net1, net2)
             parsed == IF api.exc = "none" THEN ParseDf(api.text)
                       ELSE [exc |-> api.exc, rows |-> << >>] IN
         IF parsed.exc # "none"
         THEN /\ call' = Call(from_dt, to_dt, parsed.exc, api.requests, {},
                               << >>)
              /\ files' = [files EXCEPT ![tf] = Persist(file, parsed.exc, << >>)]
         ELSE \E result \in ResultDfs(file, parsed.rows) :
                /\ call' = Call(from_dt, to_dt, "ok", api.requests,
                                 TsOf(parsed.rows), result)
                /\ files' = [files EXCEPT ![tf] = Persist(file, "ok", result)]

FromDates(tf) == {k * Gap(tf) : k \in 0..1}
ToDates(tf) == {k * Gap(tf) : k \in 1..(MaxK + 1)}

download ==
    \E from_dt \in FromDates(active_tf), to_dt \in ToDates(active_tf),
       net1 \in NetFirst, net2 \in NetSecond(active_tf) :
        /\ Download(active_tf, from_dt, to_dt, net1, net2)
        /\ UNCHANGED active_tf
        /\ UNCHANGED << sessionVars, auxVars >>

\* the session of a run of SpecSync: logged out, or logged in earlier
InitSyncSessions == {NoFile, save_session("K1", "U1", "1", 1)}

InitSync ==
    /\ api_token = "tok"
    /\ api_secret = "sec"
    /\ totp_secret = "totp"
    /\ \E file \in InitSyncSessions : InitSession(file)
    /\ files = [tf \in Timeframes |-> NoCsv]
    /\ active_tf \in Timeframes
    /\ call = NoCall
    /\ InitAux

NextSync == download

SpecSync == InitSync /\ [][NextSync]_vars

----------------------------------------------------------------------------
(* download on answers whose lines carry another number of cells than the  *)
(* timeframe's columns                                                     *)

\* len(cols) of _parse_day_minute_df and of _parse_tick_df
DayMinuteColumns == 7
TickColumns == 4

ExpectedColumns(tf) == IF tf = "tick" THEN TickColumns ELSE DayMinuteColumns

\* cells per line of an answer: one short, as expected, one over
ColumnCounts(tf) ==
    {ExpectedColumns(tf) - 1, ExpectedColumns(tf), ExpectedColumns(tf) + 1}

MaxShapedRows == 1

\* answers of dated lines
ShapedBodies(tf) ==
    UNION {[1..n -> [ts : Times(tf), close : Closes]] : n \in 1..MaxShapedRows}

\* pd.read_csv(StringIO(text), names=cols, header=None) on lines of ncols
\* cells, then to_datetime: it does not raise on the count. Short lines get
\* NaN in the trailing columns (oi), the timestamp and close cells stay; with
\* a cell more the first cell becomes the index and every name takes the
\* cell after its own: the timestamp column holds a price (to_datetime makes
\* it nanoseconds after the epoch for day/minute, seconds after the epoch
\* for tick) and the close column a cell the rows here do not carry
ReadCsv(tf, ncols, body) ==
    IF ncols <= ExpectedColumns(tf) THEN {body}
    ELSE {b \in [1..Len(body) -> [ts : {0} \cup Closes, close : Closes]] :
             \A i \in 1..Len(body) :
                b[i].ts = IF tf = "tick" THEN body[i].close ELSE 0}

\* download when the answer is a 200 whose lines carry ncols cells (CSV, so
\* APIClient.get raised on r.json() and the fallback GET delivered it)
DownloadShaped(ncols) ==
    \E from_dt \in {0}, to_dt \in ToDates(active_tf),
       body \in ShapedBodies(active_tf) :
        \E parsed \in ReadCsv(active_tf, ncols, body) :
            Download(active_tf, from_dt, to_dt, "raises",
                     [kind |-> "ok", body |-> parsed])

download_shaped ==
    /\ \E ncols \in ColumnCounts(active_tf) : DownloadShaped(ncols)
    /\ UNCHANGED active_tf
    /\ UNCHANGED << sessionVars, auxVars >>

NextParse == download_shaped

SpecParse == InitSync /\ [][NextParse]_vars

----------------------------------------------------------------------------
(* HistoricalDataManager.get_previous_close(segment, token, timeframe)     *)

FallbackDays == 10

\* the None get_previous_close returns when it has no close to give
NoClose == -1

\* datetime.date(): the day a timestamp falls on (NaT.date() is NaT, equal to
\* no date)
DateOf(ts) == IF ts = NaT THEN NaT ELSE ts \div SecondsPerDay

\* lines 249-255 and 277-282: the row before the last when the last row is
\* dated today and there are two rows, else the last row
PickClose(rows, now) ==
    IF DateOf(rows[Len(rows)].ts) = DateOf(now) /\ Len(rows) >= 2
    THEN rows[Len(rows) - 1].close
    ELSE rows[Len(rows)].close

\* lines 242-264, the local file exists: None for tick and for an empty file
LocalClose(tf, rows, now) ==
    IF tf = "tick" THEN NoClose
    ELSE IF Len(rows) = 0 THEN NoClose
    ELSE PickClose(rows, now)

\* lines 271-290, on the frame the fallback download returned: None unless
\* it has two rows
FallbackClose(rows, now) ==
    IF Len(rows) = 0 THEN NoClose
    ELSE IF Len(rows) >= 2 THEN PickClose(rows, now)
    ELSE NoClose

\* FallbackResult with the exception of the download let through
FallbackResult_Propagate(outcome, returned, now) ==
    IF outcome \in {"ok", "short_circuit"}
    THEN [exc |-> "none", val |-> FallbackClose(returned, now)]
    ELSE [exc |-> outcome, val |-> NoClose]

\* lines 267-288: the download and the rule run inside try, `except
\* Exception: return None`
FallbackResult(outcome, returned, now) ==
    IF outcome \in {"ok", "short_circuit"}
    THEN [exc |-> "none", val |-> FallbackClose(returned, now)]
    ELSE [exc |-> "none", val |-> NoClose]

\* get_previous_close at time `now`: the local file of the requested key when
\* it exists, else a download of the "day" key over the last FallbackDays
\* days; an exception of the download is swallowed
PreviousClose(now) ==
    IF files[active_tf].exists
    THEN /\ ret' = Ret("get_previous_close", "none",
                       LocalClose(active_tf, files[active_tf].rows, now))
         /\ UNCHANGED << files, call >>
    ELSE \E net1 \in NetFirst, net2 \in NetSecond("day") :
            /\ Download("day", now - FallbackDays * SecondsPerDay, now,
                        net1, net2)
            /\ ret' = Ret("get_previous_close",
                          FallbackResult(call'.outcome, call'.returned,
                                         now).exc,
                          FallbackResult(call'.outcome, call'.returned,
                                         now).val)

\* values of datetime.utcnow() at a call
Nows == {d * SecondsPerDay : d \in 0..(MaxK + 1)}

get_previous_close ==
    \E now \in Nows :
        /\ PreviousClose(now)
        /\ UNCHANGED << api_token, api_secret, totp_secret, api_session_key,
                        susertoken, uid, last_login_ts, session_file, clock,
                        order_manager, active_tf, auxVars >>

\* the files a first download of a key leaves behind (it writes the parsed
\* answer as it came)
InitCloseFiles(tf) ==
    {NoCsv} \cup {Csv(b) : b \in {x \in Bodies(tf) : Len(x) >= 1}}

InitClose ==
    /\ api_token = "tok"
    /\ api_secret = "sec"
    /\ totp_secret = "totp"
    /\ \E file \in InitSyncSessions : InitSession(file)
    /\ active_tf \in Timeframes
    /\ \E f \in InitCloseFiles(active_tf) :
          files = [tf \in Timeframes |-> IF tf = active_tf THEN f ELSE NoCsv]
    /\ call = NoCall
    /\ InitAux

NextClose == get_previous_close

SpecClose == InitClose /\ [][NextClose]_vars

----------------------------------------------------------------------------
(* Two threads on one SessionManager, one call each: login_step2_with_otp  *)
(* and logout cut at their accesses to the fields and to persist_path      *)

NumThreads == 2

\* a call in flight: the operation, where it stands, the fields the token
\* answer gives, the blob _save_session built and the exception it ended with
Thread(op, pc, m, blob, exc) ==
    [op |-> op, pc |-> pc, m |-> m, blob |-> blob, exc |-> exc]

IdleThread == Thread("none", "idle", EmptyFields, EmptyFields, "none")

ThreadStep(i, t) ==
    /\ threads' = [threads EXCEPT ![i] = t]
    /\ UNCHANGED << api_token, api_secret, totp_secret, ret, order_manager >>
    /\ UNCHANGED << syncVars, history, syncers, broker >>

\* lines 95-100: the POST and the checks of the answer
t_step2_post(i) ==
    /\ threads[i].pc = "idle"
    /\ \E resp \in Step2Responses, now \in clock..MaxClock :
          /\ clock' = now
          /\ IF TransportExc(resp) # "none"
             THEN ThreadStep(i, Thread("login_step2_with_otp", "done",
                                       EmptyFields, EmptyFields,
                                       TransportExc(resp)))
             ELSE IF StrLower(resp.stat) # "ok"
             THEN ThreadStep(i, Thread("login_step2_with_otp", "done",
                                       EmptyFields, EmptyFields,
                                       "SessionError"))
             ELSE ThreadStep(i, Thread("login_step2_with_otp", "assign",
                                       Step2Assign(resp, now), EmptyFields,
                                       "none"))
    /\ UNCHANGED << api_session_key, susertoken, uid, last_login_ts,
                    session_file >>

\* lines 102-105
t_step2_assign(i) ==
    /\ threads[i].pc = "assign"
    /\ SetMem(threads[i].m)
    /\ ThreadStep(i, [threads[i] EXCEPT !.pc = "check"])
    /\ UNCHANGED << session_file, clock >>

\* lines 107-108: the fields are read back from the object
t_step2_check(i) ==
    /\ threads[i].pc = "check"
    /\ IF is_logged_in
       THEN ThreadStep(i, [threads[i] EXCEPT !.pc = "save"])
       ELSE ThreadStep(i, [threads[i] EXCEPT !.pc = "done",
                                             !.exc = "SessionError"])
    /\ UNCHANGED << api_session_key, susertoken, uid, last_login_ts,
                    session_file, clock >>

\* _save_session, lines 158-163: the blob is built from the fields
t_step2_blob(i) ==
    /\ threads[i].pc = "save"
    /\ ThreadStep(i, [threads[i] EXCEPT !.pc = "write", !.blob = Mem])
    /\ UNCHANGED << api_session_key, susertoken, uid, last_login_ts,
                    session_file, clock >>

\* a write that dumps the fields as they are at the write
WrittenBlob_Fields(mem, t) == mem

\* _save_session, lines 164-165: json.dump(blob, f)
WrittenBlob(mem, t) == t.blob

t_step2_write(i) ==
    /\ threads[i].pc = "write"
    /\ LET b == WrittenBlob(Mem, threads[i]) IN
          session_file' = save_session(b.api_session_key, b.susertoken, b.uid,
                                       b.last_login_ts)
    /\ ThreadStep(i, [threads[i] EXCEPT !.pc = "done"])
    /\ UNCHANGED << api_session_key, susertoken, uid, last_login_ts, clock >>

\* logout, lines 145-148
t_logout_clear(i) ==
    /\ threads[i].pc = "idle"
    /\ SetMem(EmptyFields)
    /\ ThreadStep(i, Thread("logout", "remove", EmptyFields, EmptyFields,
                            "none"))
    /\ UNCHANGED << session_file, clock >>

\* logout, lines 149-150
t_logout_remove(i) ==
    /\ threads[i].pc = "remove"
    /\ session_file' = NoFile
    /\ ThreadStep(i, [threads[i] EXCEPT !.pc = "done"])
    /\ UNCHANGED << api_session_key, susertoken, uid, last_login_ts, clock >>

InitThreads ==
    /\ api_token = "tok"
    /\ api_secret = "sec"
    /\ totp_secret = "totp"
    /\ \E file \in InitSyncSessions : InitSession(file)
    /\ files = [tf \in Timeframes |-> NoCsv]
    /\ active_tf = "day"
    /\ call = NoCall
    /\ history = << >>
    /\ syncers = << >>
    /\ threads = [i \in 1..NumThreads |-> IdleThread]
    /\ broker = NoBroker

NextThreads ==
    \E i \in 1..NumThreads :
        \/ t_step2_post(i)
        \/ t_step2_assign(i)
        \/ t_step2_check(i)
        \/ t_step2_blob(i)
        \/ t_step2_write(i)
        \/ t_logout_clear(i)
        \/ t_logout_remove(i)

SpecThreads == InitThreads /\ [][NextThreads]_vars

----------------------------------------------------------------------------
(* Two download calls on the same key running at once, one call each: the  *)
(* code of download cut at its accesses to the local file                  *)

NumSyncers == 2
MaxRaceRows == 1

\* a download call: where it stands, its API arguments, the rows it parsed
\* (new_df), the file as its merge read it, its result_df and how it ended
Syncer(pc, from_api, to_dt, fetched, saw, result, outcome) ==
    [pc |-> pc, from_api |-> from_api, to_dt |-> to_dt, fetched |-> fetched,
     saw |-> saw, result |-> result, outcome |-> outcome]

Idle == Syncer("idle", 0, 0, << >>, NoCsv, << >>, "none")

RaceAnswers(tf) ==
    [kind : {"neterr", "http_err"}, body : {<< >>}]
    \cup [kind : {"ok"},
          body : UNION {[1..n -> Rows(tf)] : n \in 0..MaxRaceRows}]

SyncerStep(i, s) ==
    /\ syncers' = [syncers EXCEPT ![i] = s]
    /\ UNCHANGED << sessionVars, active_tf, call, history, threads, broker >>

\* lines 153-175: the last timestamp of the file decides the API range
sync_start(i) ==
    /\ syncers[i].pc = "idle"
    /\ \E from_dt \in FromDates(active_tf), to_dt \in ToDates(active_tf) :
          LET rs == Resume(files[active_tf], active_tf, from_dt, to_dt) IN
          IF rs.short
          THEN SyncerStep(i, Syncer("done", rs.from_api, to_dt, << >>,
                                    files[active_tf], << >>, "short_circuit"))
          ELSE SyncerStep(i, Syncer("fetch", rs.from_api, to_dt, << >>,
                                    NoCsv, << >>, "none"))
    /\ UNCHANGED files

\* lines 178-184: the API call and the parse of its answer
sync_fetch(i) ==
    /\ syncers[i].pc = "fetch"
    /\ \E net1 \in NetFirst, net2 \in RaceAnswers(active_tf) :
          LET api == CallHistoryApi(api_session_key, syncers[i].from_api,
                                    syncers[i].to_dt, net1, net2)
              parsed == IF api.exc = "none" THEN ParseDf(api.text)
                        ELSE [exc |-> api.exc, rows |-> << >>] IN
          IF parsed.exc # "none"
          THEN SyncerStep(i, [syncers[i] EXCEPT !.pc = "done",
                                                !.outcome = parsed.exc])
          ELSE SyncerStep(i, [syncers[i] EXCEPT !.pc = "merge",
                                                !.fetched = parsed.rows])
    /\ UNCHANGED files

\* lines 187-213: the file is read again and merged with new_df
sync_merge(i) ==
    /\ syncers[i].pc = "merge"
    /\ \E result \in ResultDfs(files[active_tf], syncers[i].fetched) :
          SyncerStep(i, [syncers[i] EXCEPT !.pc = "write",
                                           !.saw = files[active_tf],
                                           !.result = result])
    /\ UNCHANGED files

\* a write that merges new_df with the file as it is at the write
WrittenRows_Remerge(file, s) ==
    CHOOSE result \in ResultDfs(file, s.fetched) : TRUE

\* line 225: result_df.to_csv(local_file)
WrittenRows(file, s) == s.result

sync_write(i) ==
    /\ syncers[i].pc = "write"
    /\ files' = [files EXCEPT ![active_tf] =
                    Persist(files[active_tf], "ok",
                            WrittenRows(files[active_tf], syncers[i]))]
    /\ SyncerStep(i, [syncers[i] EXCEPT !.pc = "done", !.outcome = "ok"])

\* the file before the two calls: none, or one saved by an earlier call
RaceFiles(tf) == {NoCsv} \cup {Csv(<< Row(0, c) >>) : c \in Closes}

InitRace ==
    /\ api_token = "tok"
    /\ api_secret = "sec"
    /\ totp_secret = "totp"
    /\ \E file \in InitSyncSessions : InitSession(file)
    /\ active_tf \in Timeframes
    /\ \E file \in RaceFiles(active_tf) :
          files = [tf \in Timeframes |-> IF tf = active_tf THEN file
                                         ELSE NoCsv]
    /\ call = NoCall
    /\ history = << >>
    /\ syncers = [i \in 1..NumSyncers |-> Idle]
    /\ threads = << >>
    /\ broker = NoBroker

NextRace ==
    \E i \in 1..NumSyncers :
        \/ sync_start(i)
        \/ sync_fetch(i)
        \/ sync_merge(i)
        \/ sync_write(i)

SpecRace == InitRace /\ [][NextRace]_vars

----------------------------------------------------------------------------
(* Downloader.download_historical(symbol, segment) on one symbol           *)

MaxDate == 2
MaxAnswer == 2
MaxHistory == 4

\* from_date=None of the first call
NoDate == -1

HistoryRecords == [date : 0..MaxDate, close : Closes]

\* client.get_historical(symbol, segment, from_date=last_date): the records
\* of a client that honours from_date, in ascending date order, none dated
\* before from_date
ClientAnswers(from_date) ==
    {a \in UNION {[1..n -> HistoryRecords] : n \in 0..MaxAnswer} :
        /\ \A i, j \in 1..Len(a) : i < j => a[i].date < a[j].date
        /\ \A i \in 1..Len(a) : from_date = NoDate \/ a[i].date >= from_date}

\* lines 25-27: the date of the last saved record, None without records
LastDate(existing) ==
    IF Len(existing) = 0 THEN NoDate ELSE existing[Len(existing)].date

\* lines 32-37: nothing new leaves the file, else existing + new_data is saved
Updated(existing, new_data) ==
    IF Len(new_data) = 0 THEN existing ELSE existing \o new_data

download_historical ==
    /\ \E new_data \in ClientAnswers(LastDate(history)) :
          /\ Len(history) + Len(new_data) <= MaxHistory
          /\ history' = Updated(history, new_data)
    /\ UNCHANGED << sessionVars, syncVars, syncers, threads, broker >>

NextDownloader == download_historical

SpecDownloader == InitSync /\ [][NextDownloader]_vars

----------------------------------------------------------------------------
(* DisasterRecoveryManager and SquareoffManager over an injected API client *)

MaxOrders == 2
MaxBulk == 1
MaxPositions == 2
MaxNet == 2
MaxItems == 2

\* the id slot of a request that names no order, alert or symbol
NoId == 0

OrderStatuses == {"OPEN", "CANCELED", "COMPLETE", "REJECTED", "complete"}

\* the key an order book carries the status under
StatusKeys == {"order_status", "orderStatus"}

Exchanges == {"NSE", "NFO"}

\* str.upper() on the statuses modelled
StrUpper(s) ==
    CASE s = "complete" -> "COMPLETE"
      [] s = "open" -> "OPEN"
      [] OTHER -> s

Order(key, id, st, ex) ==
    [order_id |-> id,
     order_status |-> IF key = "order_status" THEN st ELSE None,
     orderStatus |-> IF key = "orderStatus" THEN st ELSE None,
     exchange |-> ex]

\* order books of at most `max` orders with distinct ids
OrderBooks(max) ==
    UNION {UNION {{[i \in 1..k |-> Order(key, i, f[i][1], f[i][2])] :
                      f \in [1..k -> OrderStatuses \X Exchanges]} :
                  k \in 0..max} : key \in StatusKeys}

AlertLists(max) ==
    {[i \in 1..k |-> [alert_id |-> i]] : k \in 0..max}

PositionLists(max) ==
    UNION {{[i \in 1..k |-> [tradingsymbol |-> i, net_quantity |-> f[i]]] :
               f \in [1..k -> (0 - MaxNet)..MaxNet]} : k \in 0..max}

HoldingLists(max) ==
    UNION {{[i \in 1..k |-> [tradingsymbol |-> i, dp_qty |-> f[i][1],
                              t1_qty |-> f[i][2]]] :
               f \in [1..k -> (0..MaxNet) \X (0..MaxNet)]} : k \in 0..max}

\* one call of the API client: api.get(path) / api.post(path, json=payload)
ApiCall(path, id, side, qty) ==
    [path |-> path, id |-> id, side |-> side, qty |-> qty]

\* the per-item dict of a result list
Result(id, action, status) ==
    [id |-> id, action |-> action, status |-> status]

\* what each API call of one operation does, in order
Outcomes == [1..MaxItems -> {"ok", "raises"}]

RECURSIVE Flatten(_)
Flatten(seqs) ==
    IF Len(seqs) = 0 THEN << >> ELSE Head(seqs) \o Flatten(Tail(seqs))

\* results and requests of a list of per-item outcomes [res, sent]
Collect(fetch_sent, items) ==
    [exc |-> "none",
     results |-> [i \in 1..Len(items) |-> items[i].res],
     sent |-> fetch_sent \o Flatten([i \in 1..Len(items) |-> items[i].sent])]

Raised(exc, sent) == [exc |-> exc, results |-> << >>, sent |-> sent]

\* api.get("/orders") answers
BookResponses == {"SUCCESS", "list", "unexpected", "raises"}

\* _fetch_order_book
FetchOrderBook(resp, orders) ==
    [exc |-> CASE resp = "raises" -> "APIClientError"
               [] resp = "unexpected" -> "DisasterRecoveryError"
               [] OTHER -> "none",
     orders |-> IF resp \in {"SUCCESS", "list"} THEN orders ELSE << >>,
     sent |-> << ApiCall("orders", NoId, None, 0) >>]

\* _call_cancel that ignores dry_run
CallCancel_Live(order_id, dry_run, outcome) ==
    [res |-> Result(order_id, "cancel",
                    IF outcome = "ok" THEN "OK" ELSE "ERROR"),
     sent |-> << ApiCall("cancel", order_id, None, 0) >>]

\* _call_cancel
CallCancel(order_id, dry_run, outcome) ==
    IF dry_run
    THEN [res |-> Result(order_id, "cancel", "DRY"), sent |-> << >>]
    ELSE [res |-> Result(order_id, "cancel",
                         IF outcome = "ok" THEN "OK" ELSE "ERROR"),
          sent |-> << ApiCall("cancel", order_id, None, 0) >>]

\* _call_modify_to_market
CallModifyToMarket(o, dry_run, outcome) ==
    IF dry_run
    THEN [res |-> Result(o.order_id, "modify_to_market", "DRY"),
          sent |-> << >>]
    ELSE [res |-> Result(o.order_id, "modify_to_market",
                         IF outcome = "ok" THEN "OK" ELSE "ERROR"),
          sent |-> << ApiCall("modify", o.order_id, None, 0) >>]

\* line 99: (o.get("order_status") or o.get("orderStatus") or "").upper()
OrderStatusOf(o) ==
    StrUpper(PyOr(PyOr(o.order_status, o.orderStatus), ""))

FinalStatuses == {"CANCELED", "COMPLETE", "REJECTED"}

\* a default filtering that excludes nothing
IsFinal_Never(o) == FALSE

\* line 100
IsFinal(o) == OrderStatusOf(o) \in FinalStatuses

\* lines 146, 161: str(o.get("order_status", "")).upper()
FilterStatus(o) ==
    StrUpper(IF o.order_status = None THEN "" ELSE o.order_status)

\* filter_fn=None
NoFilterFn == [kind |-> "none"]

\* a caller's filter_fn, accepting the orders of some ids
IdFilters == {[kind |-> "ids", ids |-> S] : S \in SUBSET (1..MaxOrders)}

\* the _filter closure of cancel_by_filter
ByFilters ==
    {[kind |-> "by_filter", exchange |-> ex, status_in |-> st] :
        ex \in {None, "NSE"},
        st \in {{}, {"OPEN"}, {"complete"}, {"open", "REJECTED"}}}

Accepts(f, o) ==
    CASE f.kind = "none" -> TRUE
      [] f.kind = "ids" -> o.order_id \in f.ids
      [] OTHER ->
           /\ (Falsy(f.exchange) \/ o.exchange = f.exchange)
           /\ (f.status_in = {}
                 \/ FilterStatus(o) \in {StrUpper(x) : x \in f.status_in})

\* lines 97-104
CancelCandidates(orders, f) ==
    SelectSeq(orders, LAMBDA o : ~IsFinal(o) /\ Accepts(f, o))

\* lines 95-111
CancelAllOpenOrders(resp, dry_run, f, out) ==
    LET fetch == FetchOrderBook(resp, broker.orders)
        c == CancelCandidates(fetch.orders, f)
    IN  IF fetch.exc # "none" THEN Raised(fetch.exc, fetch.sent)
        ELSE Collect(fetch.sent,
                     [i \in 1..Len(c) |->
                         CallCancel(c[i].order_id, dry_run, out[i])])

\* the arguments, the value and the API calls of one bulk operation
BulkCall(op, args, r) ==
    SessionCall(op, [exc |-> r.exc,
                     val |-> [args |-> args, results |-> r.results],
                     sent |-> r.sent])

DryRun(dry_run) == [dry_run |-> dry_run]

cancel_all_open_orders ==
    \E resp \in BookResponses, dry_run \in BOOLEAN,
       f \in {NoFilterFn} \cup IdFilters, out \in Outcomes :
        BulkCall("cancel_all_open_orders", DryRun(dry_run),
                 CancelAllOpenOrders(resp, dry_run, f, out))

cancel_by_filter ==
    \E resp \in BookResponses, dry_run \in BOOLEAN, f \in ByFilters,
       out \in Outcomes :
        BulkCall("cancel_by_filter", DryRun(dry_run),
                 CancelAllOpenOrders(resp, dry_run, f, out))

\* order_ids arguments: ids of the book and one that is not in it
SelectedIds == {<< 1 >>, << MaxOrders + 1 >>, << 2, 1 >>}

cancel_selected_orders ==
    \E order_ids \in SelectedIds, dry_run \in BOOLEAN, out \in Outcomes :
        BulkCall("cancel_selected_orders", DryRun(dry_run),
                 Collect(<< >>,
                         [i \in 1..Len(order_ids) |->
                             CallCancel(order_ids[i], dry_run, out[i])]))

\* lines 158-170
ModifyAllToMarket(resp, dry_run, only_open, out) ==
    LET fetch == FetchOrderBook(resp, broker.orders)
        c == SelectSeq(fetch.orders,
                       LAMBDA o : ~(only_open
                                    /\ FilterStatus(o) \in FinalStatuses))
    IN  IF fetch.exc # "none" THEN Raised(fetch.exc, fetch.sent)
        ELSE Collect(fetch.sent,
                     [i \in 1..Len(c) |->
                         CallModifyToMarket(c[i], dry_run, out[i])])

modify_all_to_market ==
    \E resp \in BookResponses, dry_run \in BOOLEAN, only_open \in BOOLEAN,
       out \in Outcomes :
        BulkCall("modify_all_to_market", DryRun(dry_run),
                 ModifyAllToMarket(resp, dry_run, only_open, out))

\* lines 177-189: an id that is not in the book gets an ERROR result
ModifySelectedToMarket(resp, order_ids, dry_run, out) ==
    LET fetch == FetchOrderBook(resp, broker.orders)
        InBook(oid) == \E i \in 1..Len(fetch.orders) :
                           fetch.orders[i].order_id = oid
        OrderOf(oid) == fetch.orders[CHOOSE i \in 1..Len(fetch.orders) :
                                        fetch.orders[i].order_id = oid]
    IN  IF fetch.exc # "none" THEN Raised(fetch.exc, fetch.sent)
        ELSE Collect(fetch.sent,
                     [i \in 1..Len(order_ids) |->
                         IF InBook(order_ids[i])
                         THEN CallModifyToMarket(OrderOf(order_ids[i]),
                                                 dry_run, out[i])
                         ELSE [res |-> Result(order_ids[i], None, "ERROR"),
                               sent |-> << >>]])

modify_selected_to_market ==
    \E resp \in BookResponses, order_ids \in SelectedIds,
       dry_run \in BOOLEAN, out \in Outcomes :
        BulkCall("modify_selected_to_market", DryRun(dry_run),
                 ModifySelectedToMarket(resp, order_ids, dry_run, out))

\* api.get("/gttorders") answers: a dict with alerts, a dict without the
\* key, something that is no dict, an exception
AlertResponses == {"alerts", "no_key", "not_dict", "raises"}

\* cancel_all_gtt / cancel_all_oco: a failed fetch is an empty list; a dict
\* without "alerts" gives None, whose iteration raises TypeError
CancelAllAlerts(path, resp, dry_run, out) ==
    LET fetch_sent == << ApiCall("gttorders", NoId, None, 0) >>
        alerts == IF resp = "alerts" THEN broker.alerts ELSE << >>
    IN  IF resp = "no_key" THEN Raised("TypeError", fetch_sent)
        ELSE Collect(fetch_sent,
                     [i \in 1..Len(alerts) |->
                         IF dry_run
                         THEN [res |-> Result(alerts[i].alert_id, path, "DRY"),
                               sent |-> << >>]
                         ELSE [res |-> Result(alerts[i].alert_id, path,
                                              IF out[i] = "ok" THEN "OK"
                                              ELSE "ERROR"),
                               sent |-> << ApiCall(path, alerts[i].alert_id,
                                                   None, 0) >>]])

cancel_all_gtt ==
    \E resp \in AlertResponses, dry_run \in BOOLEAN, out \in Outcomes :
        BulkCall("cancel_all_gtt", DryRun(dry_run),
                 CancelAllAlerts("gttcancel", resp, dry_run, out))

cancel_all_oco ==
    \E resp \in AlertResponses, dry_run \in BOOLEAN, out \in Outcomes :
        BulkCall("cancel_all_oco", DryRun(dry_run),
                 CancelAllAlerts("ococancel", resp, dry_run, out))

\* _determine_side_from_qty that always answers SELL
DetermineSide_Sell(net_qty) == "SELL"

\* _determine_side_from_qty
DetermineSide(net_qty) == IF net_qty > 0 THEN "SELL" ELSE "BUY"

Abs(n) == IF n < 0 THEN 0 - n ELSE n

Min(a, b) == IF a < b THEN a ELSE b

\* partial_qty=None and the partial quantities a caller gives
NoPartial == [given |-> FALSE, qty |-> 0]

Partials == {NoPartial} \cup {[given |-> TRUE, qty |-> q] : q \in 0..MaxNet}

\* lines 151, 224
SqQty(qty, partial_qty) ==
    IF partial_qty.given THEN Min(qty, partial_qty.qty) ELSE qty

\* _place_squareoff_order: [exc, res, sent]
PlaceSquareoffOrder(symbol, quantity, order_type, dry_run, outcome) ==
    IF quantity <= 0
    THEN [exc |-> "SquareoffError", res |-> Result(symbol, "squareoff", None),
          sent |-> << >>]
    ELSE IF dry_run
    THEN [exc |-> "none", res |-> Result(symbol, "squareoff", "DRY"),
          sent |-> << >>]
    ELSE [exc |-> "none",
          res |-> Result(symbol, "squareoff",
                         IF outcome = "ok" THEN "OK" ELSE "ERROR"),
          sent |-> << ApiCall("placeorder", symbol,
                              PyOr(order_type, "SELL"), quantity) >>]

\* the body of the per-item try of squareoff_all_positions and
\* squareoff_all_holdings once the quantity is known: any exception becomes
\* a summary that carries "error" and no result
SquareoffItem(symbol, qty, side, market, limit_given, partial_qty, dry_run, outcome) ==
    LET placed == PlaceSquareoffOrder(symbol, SqQty(qty, partial_qty), side,
                                      dry_run, outcome)
    IN  IF (~market /\ ~limit_given) \/ placed.exc # "none"
        THEN [res |-> Result(symbol, "squareoff", None), sent |-> << >>]
        ELSE [res |-> placed.res, sent |-> placed.sent]

\* lines 138-181: zero-net positions are skipped without a summary
SquareoffAllPositions(positions, market, limit_given, partial_qty, dry_run, out) ==
    LET open == SelectSeq(positions, LAMBDA pos : pos.net_quantity # 0)
        Index(pos) == pos.tradingsymbol
    IN  Collect(<< >>,
                [i \in 1..Len(open) |->
                    SquareoffItem(open[i].tradingsymbol,
                                  Abs(open[i].net_quantity),
                                  DetermineSide(open[i].net_quantity),
                                  market, limit_given, partial_qty, dry_run,
                                  out[Index(open[i])])])

squareoff_all_positions ==
    \E market \in BOOLEAN, limit_given \in BOOLEAN,
       partial_qty \in Partials, dry_run \in BOOLEAN, out \in Outcomes :
        BulkCall("squareoff_all_positions", [dry_run |-> dry_run, market |-> market,
                  limit_given |-> limit_given,
                  partial_qty |-> partial_qty],
                 SquareoffAllPositions(broker.positions, market, limit_given,
                                       partial_qty, dry_run, out))

\* lines 206-219: the first positive quantity of the keys tried in order,
\* else the last one read
FoundQty(h) == IF h.dp_qty > 0 THEN h.dp_qty ELSE h.t1_qty

\* lines 202-264
SquareoffAllHoldings(holdings, market, limit_given, partial_qty, dry_run, out) ==
    LET held == SelectSeq(holdings, LAMBDA h : FoundQty(h) # 0)
    IN  Collect(<< >>,
                [i \in 1..Len(held) |->
                    SquareoffItem(held[i].tradingsymbol, FoundQty(held[i]),
                                  "SELL", market, limit_given, partial_qty,
                                  dry_run, out[held[i].tradingsymbol])])

squareoff_all_holdings ==
    \E market \in BOOLEAN, limit_given \in BOOLEAN,
       partial_qty \in Partials, dry_run \in BOOLEAN, out \in Outcomes :
        BulkCall("squareoff_all_holdings", DryRun(dry_run),
                 SquareoffAllHoldings(broker.holdings, market, limit_given,
                                      partial_qty, dry_run, out))

\* lines 287-321: qty as given, else |net| of the symbol's non-zero
\* position (which also gives the side when none is given), else the
\* symbol's holding quantity; 0 when nothing is found
InferredPosition(tradingsymbol) ==
    {i \in 1..Len(broker.positions) :
        /\ broker.positions[i].tradingsymbol = tradingsymbol
        /\ broker.positions[i].net_quantity # 0}

InferredHolding(tradingsymbol) ==
    {i \in 1..Len(broker.holdings) :
        broker.holdings[i].tradingsymbol = tradingsymbol}

HoldingQty(h) == IF h.t1_qty # 0 THEN h.t1_qty ELSE h.dp_qty

\* lines 287-347
SquareoffSelected(tradingsymbol, side, qty, market, limit_given, dry_run, outcome) ==
    LET ps == InferredPosition(tradingsymbol)
        hs == InferredHolding(tradingsymbol)
        net == broker.positions[CHOOSE i \in ps : TRUE].net_quantity
        inferred_qty ==
            IF qty.given THEN qty.qty
            ELSE IF ps # {} THEN Abs(net)
            ELSE IF hs # {}
            THEN HoldingQty(broker.holdings[CHOOSE i \in hs : TRUE])
            ELSE 0
        inferred_side ==
            IF ~qty.given /\ ps # {} /\ Falsy(side) THEN DetermineSide(net)
            ELSE PyOr(side, "SELL")
        placed == PlaceSquareoffOrder(tradingsymbol, inferred_qty,
                                      inferred_side, dry_run, outcome)
    IN  IF inferred_qty = 0 \/ (~market /\ ~limit_given)
        THEN Raised("SquareoffError", << >>)
        ELSE IF placed.exc # "none" THEN Raised(placed.exc, << >>)
        ELSE [exc |-> "none", results |-> << placed.res >>,
              sent |-> placed.sent]

\* qty arguments of squareoff_selected
SelectedQtys ==
    {NoPartial} \cup {[given |-> TRUE, qty |-> q] : q \in {0 - 1, 0, 1}}

squareoff_selected ==
    \E tradingsymbol \in 1..MaxBulk, side \in {None, "BUY"},
       qty \in SelectedQtys, market \in BOOLEAN, limit_given \in BOOLEAN,
       dry_run \in BOOLEAN, outcome \in {"ok", "raises"} :
        BulkCall("squareoff_selected", DryRun(dry_run),
                 SquareoffSelected(tradingsymbol, side, qty, market,
                                   limit_given, dry_run, outcome))

\* a run of the managers over what the broker holds
InitManagers(brokers) ==
    /\ api_token = "tok"
    /\ api_secret = "sec"
    /\ totp_secret = "totp"
    /\ InitSession(NoFile)
    /\ files = [tf \in Timeframes |-> NoCsv]
    /\ active_tf = "day"
    /\ call = NoCall
    /\ history = << >>
    /\ syncers = << >>
    /\ threads = << >>
    /\ broker \in brokers

BrokerWith(orders, alerts, positions, holdings) ==
    [orders |-> orders, alerts |-> alerts, positions |-> positions,
     holdings |-> holdings]

\* brokers that hold orders, alerts, positions or holdings
BulkBrokers ==
    {BrokerWith(o, << >>, << >>, << >>) : o \in OrderBooks(MaxBulk)}
    \cup {BrokerWith(<< >>, a, << >>, << >>) : a \in AlertLists(MaxBulk)}
    \cup {BrokerWith(<< >>, << >>, p, << >>) : p \in PositionLists(MaxBulk)}
    \cup {BrokerWith(<< >>, << >>, << >>, h) : h \in HoldingLists(MaxBulk)}

BulkOps ==
    {"cancel_all_open_orders", "cancel_selected_orders", "cancel_by_filter",
     "modify_all_to_market", "modify_selected_to_market", "cancel_all_gtt",
     "cancel_all_oco", "squareoff_all_positions", "squareoff_all_holdings",
     "squareoff_selected"}

NextBulk ==
    \/ cancel_all_open_orders
    \/ cancel_selected_orders
    \/ cancel_by_filter
    \/ modify_all_to_market
    \/ modify_selected_to_market
    \/ cancel_all_gtt
    \/ cancel_all_oco
    \/ squareoff_all_positions
    \/ squareoff_all_holdings
    \/ squareoff_selected

SpecBulk == InitManagers(BulkBrokers) /\ [][NextBulk]_vars

NextCancel ==
    \/ cancel_all_open_orders
    \/ cancel_by_filter

SpecCancel ==
    /\ InitManagers({BrokerWith(o, << >>, << >>, << >>) :
                         o \in OrderBooks(MaxOrders)})
    /\ [][NextCancel]_vars

NextSquareoff == squareoff_all_positions

SpecSquareoff ==
    /\ InitManagers({BrokerWith(<< >>, << >>, p, << >>) :
                         p \in PositionLists(MaxPositions)})
    /\ [][NextSquareoff]_vars

----------------------------------------------------------------------------
(* Session claims *)

\* C1: in every reachable state sessionKey and userToken are both non-empty
\* or both empty.
C1_BothOrNeither == Falsy(api_session_key) <=> Falsy(susertoken)

\* C2: completeChallenge is atomic: when it fails the four in-memory fields
\* are what they were before the call; when it succeeds both credentials are
\* set and the durable record holds the same four fields.
C2_Step2Atomic ==
    [][ret'.op = "login_step2_with_otp" =>
          IF ret'.exc = "none"
          THEN /\ is_logged_in'
               /\ session_file' = [kind |-> "json", blob |-> Mem']
          ELSE Mem' = Mem]_vars

\* C3: authHeaders() and streamToken() fail whenever the session is not
\* Authenticated, and in every Authenticated state return the Authorization
\* header built from sessionKey and userToken respectively.
C3_AuthGating ==
    /\ ret.op = "get_auth_headers" =>
          IF is_logged_in
          THEN ret.exc = "none" /\ ret.val = api_session_key
          ELSE ret.exc = "SessionError"
    /\ ret.op = "get_ws_token" =>
          IF is_logged_in
          THEN ret.exc = "none" /\ ret.val = susertoken
          ELSE ret.exc = "SessionError"

\* the token endpoint answers with the success status but no api_session_key
LacksSessionKey(resp) ==
    /\ resp.kind = "json"
    /\ StrLower(resp.stat) = "ok"
    /\ Falsy(resp.api_session_key)

\* C10: from an Unauthenticated session with no durable record, a
\* completeChallenge whose response has the success status but lacks
\* api_session_key raises SessionError, leaves is_logged_in false and
\* neither creates nor modifies the durable record.
C10_MalformedLogin ==
    [][(/\ ~is_logged_in
        /\ session_file = NoFile
        /\ \E resp \in Step2Responses, now \in clock..MaxClock :
              LacksSessionKey(resp) /\ Step2Call(resp, now))
       => /\ ret'.op = "login_step2_with_otp"
          /\ ret'.exc = "SessionError"
          /\ ~is_logged_in'
          /\ session_file' = NoFile]_vars

\* C10 witness: a step 2 that failed on a response carrying susertoken but
\* no api_session_key, with no durable record
C10_Witness ==
    /\ ret.op = "login_step2_with_otp"
    /\ ret.exc = "SessionError"
    /\ Falsy(api_session_key)
    /\ susertoken = "U1"
    /\ session_file = NoFile

LoginOps ==
    {"login_step1", "login_step2_with_otp", "login_step2_with_totp", "login"}

\* C11: once Authenticated the session stays Authenticated until logout: no
\* requestChallenge, completeChallenge, completeChallengeWithGeneratedCode or
\* login call, succeeding or failing, leaves sessionKey or userToken empty.
C11_StaysAuthenticated ==
    [][(is_logged_in /\ ret'.op \in LoginOps) => is_logged_in']_vars

\* a call that ran login_step2_with_otp to its end
Step2Succeeded(r) ==
    /\ r.op \in {"login_step2_with_otp", "login_step2_with_totp", "login"}
    /\ r.exc = "none"
    /\ r.sent # << >>
    /\ r.sent[Len(r.sent)] = Sent("token", None)

\* C12: session state survives a restart: a successful completeChallenge
\* writes the four fields to the durable record, only such a call or logout
\* changes the record, logout removes it, and a SessionManager constructed on
\* the path holds exactly the record's four fields and is Authenticated when
\* there is a record, and is Unauthenticated when there is none.
C12_SurvivesRestart ==
    [][/\ Step2Succeeded(ret')
            => session_file' = [kind |-> "json", blob |-> Mem']
       /\ ret'.op = "logout" => session_file' = NoFile
       /\ session_file' # session_file
            => (Step2Succeeded(ret') \/ ret'.op = "logout")
       /\ ret'.op = "__init__"
            => IF session_file.kind = "json"
               THEN Mem' = session_file.blob /\ is_logged_in'
               ELSE Mem' = EmptyFields]_vars

\* C12 witness: a SessionManager constructed on the record a login of this
\* run wrote
C12_Witness ==
    /\ ret.op = "__init__"
    /\ api_session_key = "K2"
    /\ susertoken = "U1"
    /\ last_login_ts = MaxClock
    /\ session_file = [kind |-> "json", blob |-> Mem]

\* a durable record that is missing, no JSON, no JSON object, or an object
\* lacking one of the four fields
Malformed(file) ==
    \/ file.kind \in {"absent", "corrupt", "notdict"}
    \/ /\ file.kind = "json"
       /\ \/ file.blob.api_session_key = None
          \/ file.blob.susertoken = None
          \/ file.blob.uid = None
          \/ file.blob.last_login_ts = NoTs

\* C13: constructing a Session when the durable record is missing or
\* malformed never raises and yields an empty session: sessionKey, userToken,
\* userId and lastLoginTimestamp all absent.
C13_MalformedIsEmpty ==
    (ret.op = "__init__" /\ Malformed(session_file))
        => (ret.exc = "none" /\ Mem = EmptyFields)

\* C14: logout from any state succeeds, clears the four fields and removes
\* the durable record; a logout of an empty session with no record leaves
\* the same empty state.
C14_LogoutClears ==
    [][ret'.op = "logout"
          => /\ ret'.exc = "none"
             /\ Mem' = EmptyFields
             /\ session_file' = NoFile
             /\ (Mem = EmptyFields /\ session_file = NoFile)
                   => (Mem' = Mem /\ session_file' = session_file)]_vars

\* C14 witness: a logout after a login of this run
C14_Witness ==
    /\ ret.op = "logout"
    /\ clock = MaxClock
    /\ Mem = EmptyFields
    /\ session_file = NoFile

GatewayOps == {"APIClient.get", "APIClient.post", "modify_order", "cancel_order"}

\* C16: the Authorization header is read from the session at each request:
\* a gateway get/post or an order-manager request made while the session has
\* no session key (as after logout) fails with SessionError and sends
\* nothing, and one made after a login carries the session key of that login.
C16_HeadersAtCallTime ==
    [][ret'.op \in GatewayOps
          => /\ IF Falsy(api_session_key)
                THEN ret'.exc = "SessionError" /\ ret'.sent = << >>
                ELSE /\ Len(ret'.sent) = 1
                     /\ ret'.sent[1].auth = api_session_key
             /\ ret.op = "logout"
                   => (ret'.exc = "SessionError" /\ ret'.sent = << >>)
             /\ (ret.op = "login_step2_with_otp" /\ ret.exc = "none")
                   => (/\ Len(ret'.sent) = 1
                       /\ ret'.sent[1].auth = session_file.blob.api_session_key)
      ]_vars

\* C16 witness: an order-manager request failed before sending, on a manager
\* built while logged in and a session since logged out
C16_Witness ==
    /\ ret.op = "modify_order"
    /\ ret.exc = "SessionError"
    /\ ret.sent = << >>
    /\ order_manager
    /\ Mem = EmptyFields
    /\ session_file = NoFile

\* C22: every failure of a networked login step reaches the caller as
\* SessionError; no other error type escapes login_step1,
\* login_step2_with_otp, login_step2_with_totp or login.
C22_OnlySessionError ==
    ret.op \in LoginOps => ret.exc \in {"none", "SessionError"}

\* C30: the login page reports "Logged in with TOTP" only when the session
\* is Authenticated after sm.login(prefer_totp=True) returned.
C30_SuccessMeansLoggedIn ==
    (ret.op = "login_button" /\ ret.val = "success") => is_logged_in

----------------------------------------------------------------------------
(* Historical data claims *)

Valid(ts) == ts # NaT

\* C4: after any sequence of sync calls the persisted dataset of every key is
\* strictly ascending by timestamp (so no two stored points share one).
C4_StrictlyAscending ==
    \A tf \in Timeframes :
        LET rows == files[tf].rows IN
        \A i, j \in 1..Len(rows) :
            (i < j /\ Valid(rows[i].ts) /\ Valid(rows[j].ts))
                => rows[i].ts < rows[j].ts

\* a dataset of dated rows in strictly ascending order
WellFormed(file) ==
    /\ file.exists
    /\ \A i \in 1..Len(file.rows) : Valid(file.rows[i].ts)
    /\ \A i, j \in 1..Len(file.rows) :
          i < j => file.rows[i].ts < file.rows[j].ts

\* the remote behaves and has nothing newer than the stored rows: the
\* gateway attempt does not yield a body, and the answer is CSV whose rows
\* are dated no later than the latest stored row
NoNewerData(file, net1, net2) ==
    /\ net1 = "raises"
    /\ net2.kind = "ok"
    /\ \A i \in 1..Len(net2.body) :
          /\ Valid(net2.body[i].ts)
          /\ \E j \in 1..Len(file.rows) : net2.body[i].ts <= file.rows[j].ts

\* C5: a second sync with the same arguments, while the remote has no data
\* newer than what the first stored, leaves the persisted dataset identical
\* and issues zero network requests.
C5_IdempotentSync ==
    [][(/\ call.op = "download"
        /\ call.outcome \in {"ok", "short_circuit"}
        /\ WellFormed(files[active_tf])
        /\ \E net1 \in NetFirst, net2 \in NetSecond(active_tf) :
              /\ NoNewerData(files[active_tf], net1, net2)
              /\ Download(active_tf, call.from_dt, call.to_dt, net1, net2)
              /\ UNCHANGED active_tf)
       => /\ call'.requests = << >>
          /\ files' = files]_vars

\* C5 (amended): a second sync with the same arguments leaves the persisted
\* dataset identical and issues zero network requests provided the last
\* stored timestamp is a date and, plus one unit, is >= rangeEnd.
C5_IdempotentWhenCaughtUp ==
    [][(/\ call'.repeat
        /\ Valid(last_timestamp_in_file(files[active_tf]))
        /\ last_timestamp_in_file(files[active_tf]) + Unit(active_tf)
              >= call'.to_dt)
       => /\ call'.requests = << >>
          /\ files' = files]_vars

\* C5 witness: a repeated call that returned early
C5_Witness ==
    /\ call.op = "download"
    /\ call.repeat
    /\ call.outcome = "short_circuit"
    /\ files[active_tf].exists

\* the rows of timestamp ts in a sequence of rows
AtTs(rows, ts) == {r \in RowsOf(rows) : r.ts = ts}

\* C6: when a sync merges fetched points into an existing dataset and a
\* fetched point has the timestamp of a stored point but another close, the
\* persisted dataset holds the fetched point's values for that timestamp.
C6_FreshWins ==
    [][\A from_dt \in FromDates(active_tf), to_dt \in ToDates(active_tf),
          net1 \in NetFirst, net2 \in NetSecond(active_tf) :
          (/\ files[active_tf].exists
           /\ Download(active_tf, from_dt, to_dt, net1, net2)
           /\ call'.outcome = "ok")
          => LET old == files[active_tf]
                 fetched == FetchedRows(api_session_key,
                               Resume(old, active_tf, from_dt, to_dt).from_api,
                               to_dt, net1, net2) IN
             \A r \in RowsOf(fetched) :
                (/\ \A x \in RowsOf(fetched) : Valid(x.ts)
                 /\ WellFormed(old)
                 /\ AtTs(fetched, r.ts) = {r}
                 /\ \E q \in AtTs(old.rows, r.ts) : q.close # r.close)
                => AtTs(files'[active_tf].rows, r.ts) = {r}]_vars

C8_ShortCircuit ==
    [][(/\ call'.op = "download"
        /\ files[active_tf].exists
        /\ Valid(last_timestamp_in_file(files[active_tf]))
        /\ last_timestamp_in_file(files[active_tf]) + Unit(active_tf)
              >= call'.to_dt)
       => /\ call'.outcome = "short_circuit"
          /\ call'.requests = << >>
          /\ files' = files
          /\ call'.returned = files[active_tf].rows]_vars

\* C8 witness: a call returned early on an existing dataset
C8_Witness ==
    /\ call.op = "download"
    /\ call.outcome = "short_circuit"
    /\ call.requests = << >>
    /\ files[active_tf].exists
    /\ call.returned = files[active_tf].rows

\* C9: a sync that fails leaves the on-disk dataset as it was; the file is
\* rewritten only after a fully successful fetch and parse.
C9_FailureLeavesFile ==
    [][/\ call'.outcome \notin {"ok", "short_circuit"} => files' = files
       /\ files' # files => call'.outcome = "ok"]_vars

\* C9 witness: a call failed after sending a request, with a dataset on disk
C9_Witness ==
    /\ call.op = "download"
    /\ call.outcome \in {"RequestException", "HistoricalDataError",
                         "EmptyDataError"}
    /\ Len(call.requests) > 0
    /\ files[active_tf].exists

\* C17: a sync that does not short-circuit issues exactly one GET to the
\* history endpoint, whether that GET succeeds or fails.
C17_ExactlyOneGet ==
    (call.op = "download" /\ call.outcome # "short_circuit")
        => Len(call.requests) = 1

\* C18: every GET a sync sends carries the Authorization header of the
\* session; without a session key no history request is sent.
C18_AlwaysAuthorized ==
    call.op = "download"
        => \A i \in 1..Len(call.requests) :
              /\ call.requests[i].auth # None
              /\ call.requests[i].auth = api_session_key

\* C19: the persisted dataset never shrinks: after a successful sync the set
\* of stored timestamps is the union of those stored before and those
\* fetched by the call; after a failed or short-circuited sync it is the set
\* stored before.
C19_NeverShrinks ==
    [][call'.op = "download"
          => TsOf(files'[active_tf].rows) =
                IF call'.outcome = "ok"
                THEN TsOf(files[active_tf].rows) \cup call'.fetched
                ELSE TsOf(files[active_tf].rows)]_vars

\* C19 witness: a resumed sync fetched one later timestamp and left two
\* dated rows on disk
C19_Witness ==
    /\ call.op = "download"
    /\ call.outcome = "ok"
    /\ call.requests # << >>
    /\ call.requests[1].from # fmt_dt_for_api(call.from_dt)
    /\ Len(files[active_tf].rows) = 2
    /\ WellFormed(files[active_tf])
    /\ call.fetched = {files[active_tf].rows[2].ts}

\* the rule of previousClose on a dataset: the second-to-last close when
\* the last point is dated today and two points exist, else the last close
PreviousCloseRule(rows, now) ==
    IF Len(rows) >= 2 /\ DateOf(rows[Len(rows)].ts) = DateOf(now)
    THEN rows[Len(rows) - 1].close
    ELSE rows[Len(rows)].close

\* C20: previousClose returns what the one rule gives on the dataset of the
\* requested key, whether that dataset was local or was obtained by the
\* fallback sync: a dataset of exactly one point yields that point's close.
C20_OneRule ==
    [][ret'.op = "get_previous_close"
          => \A now \in Nows :
                (/\ PreviousClose(now)
                 /\ is_logged_in
                 /\ active_tf = "day"
                 /\ WellFormed(files'[active_tf])
                 /\ files'[active_tf].rows # << >>)
                => ret'.val = PreviousCloseRule(files'[active_tf].rows, now)
      ]_vars

C23_ColumnCountChecked ==
    [][call'.op = "download"
          => \A ncols \in ColumnCounts(active_tf) :
                (/\ ncols # ExpectedColumns(active_tf)
                 /\ call'.outcome # "short_circuit"
                 /\ DownloadShaped(ncols))
                => (call'.outcome = "ParserError" /\ files' = files)]_vars

\* C25: after any sequence of download_historical calls for one symbol and
\* segment, each asking the client for data from the last stored record's
\* date, the saved history holds no two records of the same date.
C25_NoDuplicateDates ==
    \A i, j \in 1..Len(history) :
        i < j => history[i].date # history[j].date

StateChangingPaths ==
    {"cancel", "modify", "placeorder", "gttcancel", "ococancel"}

StateChanging(sent) ==
    {i \in 1..Len(sent) : sent[i].path \in StateChangingPaths}

DryRunOf(r) == r.op \in BulkOps /\ r.val.args.dry_run

RejectedItem(r, item) ==
    \/ /\ r.op = "modify_selected_to_market"
       /\ item.status = "ERROR"
       /\ \A j \in 1..Len(broker.orders) :
             broker.orders[j].order_id # item.id
    \/ /\ r.op \in {"squareoff_all_positions", "squareoff_all_holdings"}
       /\ item.status = None

CancelOps == {"cancel_all_open_orders", "cancel_by_filter"}

\* the status an order of the book carries, under either key, in upper case
HasFinalStatus(o) ==
    \E x \in {o.order_status, o.orderStatus} \ {None} :
        StrUpper(x) \in {"CANCELED", "COMPLETE", "REJECTED"}

Cancels(sent) == {i \in 1..Len(sent) : sent[i].path = "cancel"}

\* C28: cancel_all_open_orders and cancel_by_filter never issue a cancel
\* request for an order whose status is CANCELED, COMPLETE or REJECTED,
\* whatever filter is given, and issue at most one cancel request per
\* remaining order of the fetched book.
C28_NeverCancelsFinal ==
    ret.op \in CancelOps =>
        /\ \A i \in Cancels(ret.sent) :
              \E j \in 1..Len(broker.orders) :
                  /\ broker.orders[j].order_id = ret.sent[i].id
                  /\ ~HasFinalStatus(broker.orders[j])
        /\ \A i, j \in Cancels(ret.sent) :
              ret.sent[i].id = ret.sent[j].id => i = j

C28_Witness ==
    /\ ret.op = "cancel_by_filter"
    /\ ~ret.val.args.dry_run
    /\ Len(broker.orders) = 2
    /\ HasFinalStatus(broker.orders[1])
    /\ ~HasFinalStatus(broker.orders[2])
    /\ ret.sent = << ApiCall("orders", NoId, None, 0),
                     ApiCall("cancel", 2, None, 0) >>

PlacedFor(sent, symbol) ==
    {i \in 1..Len(sent) :
        sent[i].path = "placeorder" /\ sent[i].id = symbol}

\* the order that closes a position: SELL a long, BUY a short, for |net| or
\* min(|net|, partial_qty), between 1 and |net|
ClosesPosition(order, pos, partial_qty) ==
    /\ order.side = IF pos.net_quantity > 0 THEN "SELL" ELSE "BUY"
    /\ order.qty = IF partial_qty.given
                   THEN Min(Abs(pos.net_quantity), partial_qty.qty)
                   ELSE Abs(pos.net_quantity)
    /\ order.qty \in 1..Abs(pos.net_quantity)

\* C29 (as stated): squareoff_all_positions places exactly one closing order
\* for every position of non-zero net quantity, and none for a zero-net one.
C29_OneClosingOrder ==
    ret.op = "squareoff_all_positions" =>
        \A i \in 1..Len(broker.positions) :
            LET pos == broker.positions[i]
                placed == PlacedFor(ret.sent, pos.tradingsymbol)
            IN  IF pos.net_quantity = 0 THEN placed = {}
                ELSE /\ Cardinality(placed) = 1
                     /\ \A k \in placed :
                           ClosesPosition(ret.sent[k], pos, ret.val.args.partial_qty)

\* the call asks for real orders that can be built
PlacesOrders(args) ==
    /\ ~args.dry_run
    /\ args.market \/ args.limit_given
    /\ ~args.partial_qty.given \/ args.partial_qty.qty >= 1

\* C29 (amended): when dry_run is false, a limit request carries its price
\* and partial_qty is absent or at least 1, exactly one closing order is
\* issued per non-zero position; otherwise none is issued; in every case an
\* order placed closes a non-zero position, and a zero-net position gets none.
C29_OneClosingOrderWhenPlacing ==
    ret.op = "squareoff_all_positions" =>
        \A i \in 1..Len(broker.positions) :
            LET pos == broker.positions[i]
                placed == PlacedFor(ret.sent, pos.tradingsymbol)
            IN  /\ \A k \in placed :
                      /\ pos.net_quantity # 0
                      /\ ClosesPosition(ret.sent[k], pos, ret.val.args.partial_qty)
                /\ Cardinality(placed) =
                      IF pos.net_quantity # 0 /\ PlacesOrders(ret.val.args)
                      THEN 1 ELSE 0
                /\ Len(ret.sent) <= Len(broker.positions)

C29_Witness ==
    /\ ret.op = "squareoff_all_positions"
    /\ PlacesOrders(ret.val.args)
    /\ ret.val.args.partial_qty = [given |-> TRUE, qty |-> 1]
    /\ Len(broker.positions) = 2
    /\ broker.positions[1].net_quantity = 0
    /\ broker.positions[2].net_quantity = 0 - 2
    /\ ret.sent = << ApiCall("placeorder", 2, "BUY", 1) >>

\* C26: the read-merge-write of download is not atomic: a call writes the
\* result it merged from the file as it read it, whatever another call wrote
\* in between, so that after two interleaved calls the file can lack points
\* one of them fetched and wrote.
C26_WritesItsOwnMerge ==
    [][\A i \in 1..NumSyncers :
          (syncers[i].pc = "write" /\ syncers'[i].pc = "done") =>
              /\ files'[active_tf] = Csv(syncers[i].result)
              /\ syncers[i].result
                    \in ResultDfs(syncers[i].saw, syncers[i].fetched)]_vars

\* both calls completed with a write, and a dated point one of them fetched
\* is not in the file
C26_LostUpdate ==
    /\ \A i \in 1..NumSyncers :
          syncers[i].pc = "done" /\ syncers[i].outcome = "ok"
    /\ \E i \in 1..NumSyncers :
          \E ts \in TsOf(syncers[i].fetched) :
              ts # NaT /\ ts \notin TsOf(files[active_tf].rows)

\* C27: without mutual exclusion the record a login_step2_with_otp writes
\* is the blob it built from the fields earlier, whatever a logout or another
\* login_step2_with_otp did to the fields and the record in between, so that
\* after both finish the record can exist while the session is not
\* Authenticated, or hold credentials other than those in memory.
C27_WritesTheBlobItBuilt ==
    [][\A i \in 1..NumThreads :
          (threads[i].pc = "write" /\ threads'[i].pc = "done") =>
              /\ session_file' = [kind |-> "json", blob |-> threads[i].blob]
              /\ Mem' = Mem]_vars

Finished(t) == t.pc = "done" /\ t.exc = "none"

\* a login_step2_with_otp and a logout both finished without an exception,
\* and the record exists while the session is not Authenticated
C27_RecordWithoutSession ==
    /\ \A i \in 1..NumThreads : Finished(threads[i])
    /\ \E i, j \in 1..NumThreads :
          /\ threads[i].op = "login_step2_with_otp"
          /\ threads[j].op = "logout"
    /\ session_file.kind = "json"
    /\ ~is_logged_in

\* two login_step2_with_otp both finished without an exception, and the
\* record holds credentials other than those in memory
RecordOfTheOtherLogin ==
    /\ \A i \in 1..NumThreads :
          Finished(threads[i]) /\ threads[i].op = "login_step2_with_otp"
    /\ session_file.kind = "json"
    /\ session_file.blob.api_session_key # api_session_key

====
